---- MODULE Spec2Model ----
(***************************************************************************)
(* Alert evaluation and asynchronous multi-channel dispatch pipeline of    *)
(* the Bandix monitor: alert_checker.py (evaluation, suppression),         *)
(* notification_queue.py (queue, worker pool), notification_service.py     *)
(* (channel registry, per-channel endpoint fan-out), alert_api.py          *)
(* (acknowledge, rule update), data_collector.py (telemetry cycle).        *)
(***************************************************************************)
EXTENDS Integers, Sequences, FiniteSets, TLC

(* ------------------------------ bounds -------------------------------- *)
\* the clock runs over MaxTime minutes from process start
MaxTime == 6
\* rows the alert_history table may hold before the cycle action is disabled
MaxEvents == 2
\* longest sleep between two cycles, in minutes
MaxElapsed == 3
\* worker threads started by start_workers
PoolSize == 2
\* tasks accepted by the queue over a run
MaxTasks == 2
\* endpoints (URLs, chat ids) configured for one channel
MaxEndpoints == 2
\* start_workers calls of one run that start threads
MaxStarts == 2
\* collector threads created over a run
MaxLoops == 2

(* ------------------------- program constants -------------------------- *)
\* timedelta(minutes=5) of the duplicate check
SuppressionMinutes == 5

\* queue.Queue() is built without maxsize: 0 means no upper limit
maxsize == 0

\* values in the tuple load_config_file returns
ReturnedValues == 8
\* targets of the unpacking assignment in NotificationService._load_config
UnpackTargets == 7

\* Python None of a nullable column / a query without result
NoneVal == -1

(* --------------------------- input domains ---------------------------- *)
RuleIds == {1, 2}
Devices == {1, 2}
\* rule.device_id values a client may store: 0/None is "all devices"
ScopeValues == {0} \cup Devices
\* bytes_per_second pairs a telemetry reading may carry
Speeds == {[down |-> 0, up |-> 1], [down |-> 1, up |-> 1]}
\* an entry missing from the telemetry payload
Absent == [down |-> NoneVal, up |-> NoneVal]
\* no TotalTraffic row / no DeviceTraffic row for the device
NoTotal == [down |-> NoneVal, up |-> NoneVal]
NoRecord == [down |-> NoneVal, up |-> NoneVal, timestamp |-> NoneVal]

VARIABLES
    now,          \* datetime.utcnow() of the latest cycle, in minutes
    feed,         \* readings the monitored router may report (fixed per run)
    rules,        \* alert_rules table: id -> row
    history,      \* alert_history table: sequence of rows, id = index
    latestTotal,  \* newest TotalTraffic row
    latestDev,    \* newest DeviceTraffic row per device
    saved,        \* what the latest save_traffic_data call returned
    is_running,   \* notification_queue._is_running
    queue,        \* notification_queue._task_queue (waiting tasks, FIFO)
    unfinished,   \* _task_queue.unfinished_tasks
    dropped,      \* "queue full, task dropped" warnings printed so far
    nextTok,      \* identity given to the next accepted task tuple
    startsLeft,   \* start_workers calls the host program still makes
    wpc,          \* per worker thread: position in _worker_thread
    wtask,        \* per worker thread: the task it holds
    wlast,        \* per worker thread: what its latest finished task did
    deq,          \* per task identity: the workers that dequeued it, in order
    spc,          \* position of the thread inside stop_workers
    tresp,        \* latest response of the test-send endpoint
    ch,           \* the channel whose send is running: kind, enabled, config
    replies,      \* what each configured endpoint answers to a POST
    sstate,       \* position inside send: "begin", "loop", "done"
    spos,         \* index of the next endpoint of the loop
    posts,        \* endpoints a POST was issued to, in order
    success_count,
    errors,       \* endpoints named in the errors list
    ret,          \* the (success, detail) pair returned by send
    IS_RUNNING,   \* data_collector.IS_RUNNING
    cpc,          \* per collector thread: position in collector_loop
    plan,         \* per collector thread: rows its alert check decided to insert
    conf,         \* per scheduler: the enabled flag written in the config file
    started,      \* per scheduler: its start was called, its stop not yet
    is_running_of,\* per scheduler object: self.is_running
    jobs          \* jobs of the default scheduler of the schedule module

evalVars == <<now, feed, rules, history, latestTotal, latestDev, saved>>
queueVars == <<is_running, queue, unfinished, dropped, nextTok, startsLeft, wpc, wtask, wlast, deq, spc,
               tresp>>
sendVars == <<ch, replies, sstate, spos, posts, success_count, errors, ret>>
lifeVars == <<IS_RUNNING, cpc, plan, conf, started, is_running_of, jobs>>
vars == <<now, feed, rules, history, latestTotal, latestDev, saved,
          is_running, queue, unfinished, dropped, nextTok, startsLeft, wpc, wtask, wlast,
          deq, spc, tresp, ch, replies, sstate, spos, posts, success_count, errors, ret,
          IS_RUNNING, cpc, plan, conf, started, is_running_of, jobs>>

(* ------------------------ alert_checker.py ---------------------------- *)
\* AlertHistory(...) as constructed by the evaluator
AlertHistoryRow(rule_id, alert_type, severity, device_id, t) ==
    [rule_id |-> rule_id, alert_type |-> alert_type, severity |-> severity,
     device_id |-> device_id, status |-> "triggered", triggered_at |-> t]

\* variant: the window excludes its oldest instant
recent_alert_rule_strict(h, rule_id, t) ==
    \E i \in 1..Len(h) :
        /\ h[i].rule_id = rule_id
        /\ h[i].status = "triggered"
        /\ h[i].triggered_at > t - SuppressionMinutes

\* duplicate check of the traffic rules: keyed by rule id only
recent_alert_rule(h, rule_id, t) ==
    \E i \in 1..Len(h) :
        /\ h[i].rule_id = rule_id
        /\ h[i].status = "triggered"
        /\ h[i].triggered_at >= t - SuppressionMinutes

\* variant: the window excludes its oldest instant
recent_alert_device_strict(h, rule_id, d, t) ==
    \E i \in 1..Len(h) :
        /\ h[i].rule_id = rule_id
        /\ h[i].device_id = d
        /\ h[i].status = "triggered"
        /\ h[i].triggered_at > t - SuppressionMinutes

\* variant: the device is left out of the filter
recent_alert_device_anydev(h, rule_id, d, t) ==
    \E i \in 1..Len(h) :
        /\ h[i].rule_id = rule_id
        /\ h[i].status = "triggered"
        /\ h[i].triggered_at >= t - SuppressionMinutes

\* duplicate check of the offline rules: keyed by rule id and device id
recent_alert_device(h, rule_id, d, t) ==
    \E i \in 1..Len(h) :
        /\ h[i].rule_id = rule_id
        /\ h[i].device_id = d
        /\ h[i].status = "triggered"
        /\ h[i].triggered_at >= t - SuppressionMinutes

total_speed(rec) == rec.down + rec.up

\* variant: strict comparison
ThresholdExceeded(speed, threshold) == speed > threshold

ThresholdReached(speed, threshold) == speed >= threshold

\* body of the loop over the traffic rules; comparing with a None
\* threshold raises TypeError, caught by the rule's except: no row
EvalTrafficRule(h, id, rule, t, total, dev) ==
    IF recent_alert_rule(h, id, t) THEN h
    ELSE IF rule.device_id # 0
    THEN LET rec == IF rule.device_id \in Devices THEN dev[rule.device_id] ELSE NoRecord IN
         IF rec = NoRecord THEN h
         ELSE IF rule.threshold_bytes = NoneVal THEN h
         ELSE IF ThresholdReached(total_speed(rec), rule.threshold_bytes)
              THEN Append(h, AlertHistoryRow(id, "traffic_threshold", rule.severity, rule.device_id, t))
              ELSE h
    ELSE IF total = NoTotal THEN h
         ELSE IF rule.threshold_bytes = NoneVal THEN h
         ELSE IF ThresholdReached(total_speed(total), rule.threshold_bytes)
              THEN Append(h, AlertHistoryRow(id, "traffic_threshold", rule.severity, 0, t))
              ELSE h

\* the evaluation of the rule raises: total_speed >= None is reached (no
\* recent alert, a reading of the target exists) and raises TypeError
TrafficRuleRaises(h, id, rule, t, total, dev) ==
    /\ ~recent_alert_rule(h, id, t)
    /\ rule.threshold_bytes = NoneVal
    /\ IF rule.device_id # 0
       THEN rule.device_id \in Devices /\ dev[rule.device_id] # NoRecord
       ELSE total # NoTotal

\* variant: the exception leaves the loop for the except of the function
AbortAfterError(continued, aborted) == aborted

\* except Exception of one rule: rollback, continue with the next rule
ContinueAfterError(continued, aborted) == continued

RECURSIVE TrafficRulesFrom(_, _, _, _, _, _)
TrafficRulesFrom(h, id, rs, t, total, dev) ==
    IF id \notin RuleIds THEN h
    ELSE IF ~(rs[id].enabled /\ rs[id].type = "traffic_threshold")
    THEN TrafficRulesFrom(h, id + 1, rs, t, total, dev)
    ELSE IF TrafficRuleRaises(h, id, rs[id], t, total, dev)
    THEN ContinueAfterError(TrafficRulesFrom(h, id + 1, rs, t, total, dev), h)
    ELSE TrafficRulesFrom(EvalTrafficRule(h, id, rs[id], t, total, dev),
                          id + 1, rs, t, total, dev)

check_traffic_threshold_alerts(h, rs, t, total, dev) ==
    TrafficRulesFrom(h, 1, rs, t, total, dev)

\* variant: a device silent for exactly the threshold counts as offline
OfflineInclusive(last_active_time, threshold_time) == last_active_time <= threshold_time

Offline(last_active_time, threshold_time) == last_active_time < threshold_time

\* body of the loop over the devices of one offline rule
EvalOfflineDevice(h, id, rule, t, d, dev) ==
    IF recent_alert_device(h, id, d, t) THEN h
    ELSE IF dev[d] = NoRecord THEN h
    ELSE IF Offline(dev[d].timestamp, t - rule.offline_threshold_minutes)
         THEN Append(h, AlertHistoryRow(id, "device_offline", rule.severity, d, t))
         ELSE h

RECURSIVE OfflineDevicesFrom(_, _, _, _, _, _)
OfflineDevicesFrom(h, id, rule, t, d, dev) ==
    IF d \notin Devices THEN h
    ELSE OfflineDevicesFrom(EvalOfflineDevice(h, id, rule, t, d, dev),
                            id, rule, t, d + 1, dev)

EvalOfflineRule(h, id, rule, t, dev) ==
    IF rule.offline_threshold_minutes = NoneVal \/ rule.offline_threshold_minutes <= 0
    THEN h
    ELSE OfflineDevicesFrom(h, id, rule, t, 1, dev)

RECURSIVE OfflineRulesFrom(_, _, _, _, _)
OfflineRulesFrom(h, id, rs, t, dev) ==
    IF id \notin RuleIds THEN h
    ELSE OfflineRulesFrom(
            IF rs[id].enabled /\ rs[id].type = "device_offline"
            THEN EvalOfflineRule(h, id, rs[id], t, dev) ELSE h,
            id + 1, rs, t, dev)

check_device_offline_alerts(h, rs, t, dev) == OfflineRulesFrom(h, 1, rs, t, dev)

\* variant: a cycle that inserts a row marks the rows it found as resolved
check_alerts_resolving(h, rs, t, total, dev) ==
    LET h1 == check_device_offline_alerts(
                  check_traffic_threshold_alerts(h, rs, t, total, dev), rs, t, dev)
    IN  [i \in 1..Len(h1) |->
            IF i <= Len(h) /\ Len(h1) > Len(h)
            THEN [h1[i] EXCEPT !.status = "resolved"]
            ELSE h1[i]]

check_alerts(h, rs, t, total, dev) ==
    check_device_offline_alerts(
        check_traffic_threshold_alerts(h, rs, t, total, dev), rs, t, dev)

(* ------------------------ data_collector.py --------------------------- *)
\* one iteration of collector_loop: the sleep since the previous cycle
\* (dt minutes), then save_traffic_data: store the reading and run the
\* alert check inline.  The clock is read only inside a cycle, so `now' is
\* advanced here.
save_traffic_data ==
    \E dt \in 0..MaxElapsed, tot \in feed.total,
       devs \in {f \in [Devices -> Speeds \cup {Absent}] :
                    \A d \in Devices : f[d] \in feed.dev[d]} :
        LET t == now + dt
            total1 == IF tot = Absent THEN latestTotal ELSE tot
            dev1 == [d \in Devices |->
                        IF devs[d] = Absent THEN latestDev[d]
                        ELSE [down |-> devs[d].down, up |-> devs[d].up,
                              timestamp |-> t]]
            h1 == check_alerts(history, rules, t, total1, dev1)
        IN  \/ /\ t <= feed.epoch + MaxTime
               /\ Len(h1) <= MaxEvents
               /\ now' = t
               /\ latestTotal' = total1
               /\ latestDev' = dev1
               /\ history' = h1
               /\ saved' = "True"
               /\ UNCHANGED <<rules, feed, queueVars, sendVars, lifeVars>>
            \* the insert raises: rollback, return False, no alert check
            \/ /\ feed.faults
               /\ saved' = "False"
               /\ UNCHANGED <<now, rules, history, feed, latestTotal, latestDev,
                              queueVars, sendVars, lifeVars>>

(* --------------------------- alert_api.py ----------------------------- *)
acknowledge_alert ==
    \E id \in 1..Len(history) :
        /\ history' = [history EXCEPT ![id].status = "acknowledged"]
        /\ UNCHANGED <<now, rules, feed, latestTotal, latestDev, saved, queueVars, sendVars, lifeVars>>

\* PUT /rules/<id> carrying a new device_id for a traffic rule
update_rule ==
    \E id \in RuleIds, s \in ScopeValues :
        /\ rules[id].type = "traffic_threshold"
        /\ rules' = [rules EXCEPT ![id].device_id = s]
        /\ rules' # rules
        /\ UNCHANGED <<now, history, feed, latestTotal, latestDev, saved, queueVars, sendVars, lifeVars>>

\* the three severities named by the column comment and by update_rule
Severities == {"critical", "warning", "info"}
\* the severity key of a request body: a string, or no key at all
NoKey == "#absent"
SeverityInputs == Severities \cup {"urgent", NoKey}
\* a rule id no row exists for
NoRule == [type |-> "none", enabled |-> FALSE, threshold_bytes |-> NoneVal,
           device_id |-> 0, offline_threshold_minutes |-> NoneVal,
           severity |-> "none"]

\* data.get('severity', 'warning') of create_rule: the value is stored as
\* it comes
create_severity(sev) == IF sev = NoKey THEN "warning" ELSE sev

\* POST /rules: the type and its threshold are validated, the severity is
\* not; the new row gets the next id
create_rule ==
    \E id \in RuleIds, ty \in {"traffic_threshold", "device_offline"},
       sev \in SeverityInputs :
        /\ rules[id] = NoRule
        /\ \A j \in RuleIds : j < id => rules[j] # NoRule
        /\ rules' = [rules EXCEPT ![id] =
                        [type |-> ty, enabled |-> TRUE,
                         threshold_bytes |-> IF ty = "traffic_threshold" THEN 2 ELSE NoneVal,
                         device_id |-> 0,
                         offline_threshold_minutes |->
                             IF ty = "device_offline" THEN 2 ELSE NoneVal,
                         severity |-> create_severity(sev)]]
        /\ UNCHANGED <<now, history, feed, latestTotal, latestDev, saved, queueVars, sendVars, lifeVars>>

\* PUT /rules/<id> carrying a severity: a value outside the three is
\* answered 400 and nothing is committed
update_rule_severity ==
    \E id \in RuleIds, sev \in SeverityInputs \ {NoKey} :
        /\ rules[id] # NoRule
        /\ sev \in Severities
        /\ rules' = [rules EXCEPT ![id].severity = sev]
        /\ rules' # rules
        /\ UNCHANGED <<now, history, feed, latestTotal, latestDev, saved, queueVars, sendVars, lifeVars>>

(* ---------------------- notification_service.py ----------------------- *)
\* severity_map.get(severity, severity) of the two formatters: the Chinese
\* label of the three severities (written here in pinyin), else the raw value
severity_label(sev) ==
    IF sev = "critical" THEN "yanzhong"
    ELSE IF sev = "warning" THEN "jinggao"
    ELSE IF sev = "info" THEN "xinxi"
    ELSE sev

\* severity_color of the HTML format, '#666' for any other value
severity_color(sev) ==
    IF sev = "critical" THEN "#dc3545"
    ELSE IF sev = "warning" THEN "#ffc107"
    ELSE IF sev = "info" THEN "#17a2b8"
    ELSE "#666"

ChannelKinds == {"page", "email", "webhook", "telegram", "wecom", "dingtalk"}
\* NotificationService._load_config: unpacking the tuple returned by
\* load_config_file into the targets of the assignment raises ValueError
\* when the counts differ; the except branch then registers page alone
load_config(returned, targets) ==
    IF returned = targets THEN ChannelKinds ELSE {"page"}

\* self.channels of a NotificationService after construction
Registries == {load_config(ReturnedValues, UnpackTargets)}
\* what one channel.send call meets: delivered, refused, or an exception
\* raised inside send
SendOutcomes == {"ok", "fail", "raise"}

\* channel.send: the page channel always succeeds; the other channels
\* return failure, and turn an exception raised inside send into a failure
ChannelSend(kind, o) ==
    IF kind = "page" THEN [kind |-> kind, success |-> TRUE, detail |-> "recorded"]
    ELSE IF o = "ok" THEN [kind |-> kind, success |-> TRUE, detail |-> "sent"]
    ELSE IF o = "fail" THEN [kind |-> kind, success |-> FALSE, detail |-> "failed"]
    ELSE [kind |-> kind, success |-> FALSE, detail |-> "exception"]

\* one iteration of the loop over notification_methods
SendOne(kind, reg, o) ==
    IF kind \notin reg
    THEN [kind |-> kind, success |-> FALSE, detail |-> "unsupported"]
    ELSE ChannelSend(kind, o)

\* variant: the loop stops after the first failed method
send_notification_short(methods, reg, oc) ==
    LET all == [i \in 1..Len(methods) |-> SendOne(methods[i], reg, oc[i])]
        fails == {i \in 1..Len(methods) : ~all[i].success}
    IN  IF fails = {} THEN all
        ELSE SubSeq(all, 1, CHOOSE i \in fails : \A j \in fails : i <= j)

\* the loop of send_notification: one result per listed method, in order
send_notification(methods, reg, oc) ==
    [i \in 1..Len(methods) |-> SendOne(methods[i], reg, oc[i])]

(* ------------- notification_service.py: endpoint fan-out -------------- *)
\* the channels that post to a list of endpoints
EndpointKinds == {"webhook", "telegram", "wecom", "dingtalk"}
\* the two kinds that read errcode from the JSON body of the response
ErrcodeKinds == {"wecom", "dingtalk"}

\* answers of an endpoint: "ok" 2xx (errcode 0); "transport" requests.post
\* raises a RequestException; "http" raise_for_status raises HTTPError;
\* "errcode" 2xx with errcode # 0; "nonobject" 2xx whose JSON body is not
\* an object, so that result.get raises AttributeError
RepliesOf(kind) ==
    IF kind \in ErrcodeKinds
    THEN {"ok", "transport", "http", "errcode", "nonobject"}
    ELSE IF kind = "email" THEN {"ok", "transport"}
    ELSE {"ok", "transport", "http"}

\* variant: only the enabled flag is tested before the network is used
ConfigErrorLax(c, n) == ~c.enabled

\* the tests of send that return before any network call: the channel is
\* disabled, a required field is empty (bot_token; smtp_host, username,
\* password, from), or the list of endpoints (urls, chat ids, to) is empty
ConfigError(c, n) == ~c.enabled \/ ~c.required \/ n = 0

NoRet == [success |-> FALSE, detail |-> "none", named |-> <<>>]

\* send up to the loop: the enabled test and the required fields
SendBegin ==
    /\ sstate = "begin"
    /\ IF ~ch.enabled
       THEN /\ ret' = [success |-> FALSE, detail |-> "not enabled", named |-> <<>>]
            /\ sstate' = "done"
       ELSE IF ConfigError(ch, Len(replies))
       THEN /\ ret' = [success |-> FALSE, detail |-> "missing field", named |-> <<>>]
            /\ sstate' = "done"
       ELSE /\ sstate' = "loop"
            /\ UNCHANGED ret
    /\ UNCHANGED <<evalVars, queueVars, lifeVars, ch, replies, spos, posts, success_count, errors>>

\* one iteration of the loop over the endpoints; an exception that is not a
\* RequestException leaves the loop for the except Exception of send
SendPost ==
    /\ sstate = "loop"
    /\ spos <= Len(replies)
    /\ posts' = Append(posts, spos)
    /\ LET r == replies[spos] IN
       IF ch.kind = "email"
       \* one SMTP session for the whole list of recipients
       THEN /\ ret' = IF r = "ok"
                      THEN [success |-> TRUE, detail |-> "sent", named |-> <<>>]
                      ELSE [success |-> FALSE, detail |-> "smtp error", named |-> <<>>]
            /\ sstate' = "done"
            /\ UNCHANGED <<errors, success_count, spos>>
       ELSE IF r = "ok"
       THEN /\ success_count' = success_count + 1
            /\ spos' = spos + 1
            /\ UNCHANGED <<errors, ret, sstate>>
       ELSE IF r = "nonobject"
       THEN /\ ret' = [success |-> FALSE, detail |-> "exception", named |-> <<>>]
            /\ sstate' = "done"
            /\ UNCHANGED <<errors, success_count, spos>>
       ELSE /\ errors' = Append(errors, spos)
            /\ spos' = spos + 1
            /\ UNCHANGED <<success_count, ret, sstate>>
    /\ UNCHANGED <<evalVars, queueVars, lifeVars, ch, replies>>

\* after the loop: success only when every endpoint succeeded
SendReturn ==
    /\ sstate = "loop"
    /\ spos > Len(replies)
    /\ ret' = IF success_count = Len(replies)
              THEN [success |-> TRUE, detail |-> "all sent", named |-> <<>>]
              ELSE IF success_count > 0
              THEN [success |-> FALSE, detail |-> "partly failed", named |-> errors]
              ELSE [success |-> FALSE, detail |-> "all failed", named |-> errors]
    /\ sstate' = "done"
    /\ UNCHANGED <<evalVars, queueVars, lifeVars, ch, replies, spos, posts, success_count, errors>>

(* ----------------------- notification_queue.py ------------------------ *)
\* the threads of the first start_workers call
Workers == 1..PoolSize
\* every thread a run may create, in the order of creation
Threads == 1..(MaxStarts * PoolSize)
\* a notification_methods argument that is not a list
NotAList == <<"#none">>
\* arguments a caller may pass: alert_history id 1 is a stored row, 2 is not
TaskInputs == {[id |-> 1, methods |-> <<"webhook", "page">>],
               [id |-> 1, methods |-> <<"sms", "email">>],
               [id |-> 1, methods |-> NotAList],
               [id |-> 2, methods |-> <<"page">>]}
NoTask == [id |-> 0, methods |-> <<>>, tok |-> 0]
NoLast == [outcome |-> "none", escaped |-> FALSE, methods |-> <<>>,
           results |-> <<>>, prev |-> "none"]

\* Queue.put(block=False): Full only for a positive maxsize
Full(q) == maxsize > 0 /\ Len(q) >= maxsize

\* variant: get returns the head and leaves it in the queue
DequeuePeek(q) == q

\* variant: get removes the newest entry
DequeueNewest(q) == SubSeq(q, 1, Len(q) - 1)

\* Queue.get: the head leaves the queue
Dequeue(q) == Tail(q)

\* Queue.task_done: ValueError when called more often than put
task_done(u) ==
    IF u - 1 < 0 THEN [unfinished |-> u, raised |-> TRUE]
    ELSE [unfinished |-> u - 1, raised |-> FALSE]

\* variant: no outer except, an escaped exception ends the thread
AfterBodyUnguarded(escaped) == IF escaped THEN "dead" ELSE "loop"

\* where the worker continues after the loop body; `escaped' says that an
\* exception left the inner try (raised by task_done in its finally)
AfterBody(escaped) == "loop"

send_notification_async ==
    \E a \in TaskInputs :
        /\ nextTok <= MaxTasks
        /\ is_running
        /\ IF Full(queue)
           THEN /\ dropped' = dropped + 1
                /\ UNCHANGED <<queue, unfinished, nextTok>>
           ELSE /\ queue' = Append(queue, [id |-> a.id, methods |-> a.methods, tok |-> nextTok])
                /\ unfinished' = unfinished + 1
                /\ nextTok' = nextTok + 1
                /\ UNCHANGED dropped
        /\ UNCHANGED <<evalVars, sendVars, lifeVars, tresp, is_running, startsLeft, wpc, wtask, wlast,
                       deq, spc>>

\* threads created so far
Spawned(pc) == Cardinality({w \in Threads : pc[w] # "none"})

\* start_workers: nothing while the flag is set; otherwise set the flag and
\* start num_workers new threads
start_workers ==
    /\ startsLeft > 0
    /\ ~is_running
    /\ is_running' = TRUE
    /\ startsLeft' = startsLeft - 1
    /\ wpc' = [w \in Threads |->
                IF w \in (Spawned(wpc) + 1)..(Spawned(wpc) + PoolSize) THEN "loop"
                ELSE wpc[w]]
    /\ UNCHANGED <<evalVars, sendVars, lifeVars, tresp, queue, unfinished, dropped, nextTok, wtask, wlast, deq, spc>>

\* variant: the loop never reads the flag
LoopTestIgnoresFlag(running) == "get"

\* the test of `while _is_running': into the body, or out of the loop
LoopTest(running) == IF running THEN "get" ELSE "exit"

\* while _is_running
WorkerCheck(w) ==
    /\ wpc[w] = "loop"
    /\ wpc' = [wpc EXCEPT ![w] = LoopTest(is_running)]
    /\ UNCHANGED <<evalVars, sendVars, lifeVars, tresp, is_running, queue, unfinished, dropped, nextTok, startsLeft,
                   wtask, wlast, deq, spc>>

\* _task_queue.get(timeout=1): a task, or queue.Empty and back to the test
WorkerGet(w) ==
    /\ wpc[w] = "get"
    /\ IF queue # <<>>
       THEN /\ wtask' = [wtask EXCEPT ![w] = Head(queue)]
            /\ queue' = Dequeue(queue)
            /\ deq' = [deq EXCEPT ![Head(queue).tok] = Append(@, w)]
            /\ wpc' = [wpc EXCEPT ![w] = "work"]
       ELSE /\ wpc' = [wpc EXCEPT ![w] = "loop"]
            /\ UNCHANGED <<wtask, queue, deq>>
    /\ UNCHANGED <<evalVars, sendVars, lifeVars, tresp, is_running, unfinished, dropped, nextTok, startsLeft, wlast, spc>>

\* the loop body for the task held: lookup, fan-out, summary, task_done
WorkerProcess(w) ==
    /\ wpc[w] = "work"
    /\ \E dbError \in BOOLEAN, reg \in Registries,
          oc \in [1..Len(wtask[w].methods) -> SendOutcomes] :
        LET task == wtask[w]
            missing == ~dbError /\ task.id \notin 1..Len(history)
            typeError == ~dbError /\ ~missing /\ task.methods = NotAList
            results == IF dbError \/ missing \/ typeError THEN <<>>
                       ELSE send_notification(task.methods, reg, oc)
            \* line 55: task_done before continue, only for a missing row
            first == IF missing THEN task_done(unfinished)
                     ELSE [unfinished |-> unfinished, raised |-> FALSE]
            \* line 82: task_done of the finally clause, on every path
            final == task_done(first.unfinished)
        IN  /\ unfinished' = final.unfinished
            /\ wlast' = [wlast EXCEPT ![w] =
                            [outcome |-> IF missing THEN "missing"
                                        ELSE IF dbError \/ typeError THEN "error"
                                        ELSE "sent",
                             escaped |-> final.raised,
                             methods |-> task.methods,
                             results |-> results,
                             prev |-> wlast[w].outcome]]
            /\ wpc' = [wpc EXCEPT ![w] = AfterBody(final.raised)]
            /\ wtask' = [wtask EXCEPT ![w] = NoTask]
    /\ UNCHANGED <<evalVars, sendVars, lifeVars, tresp, is_running, queue, dropped, nextTok, startsLeft, deq, spc>>

(* --------------------------- config_api.py ---------------------------- *)
\* channels arrays a client may post to the test endpoint
TestChannels == {<<>>, <<"email", "page">>}
NoResponse == [status |-> 0, channels |-> <<>>, results |-> <<>>]

\* POST /notifications/test: an empty array is refused with 400; otherwise a
\* fresh NotificationService sends to the listed kinds and the results are
\* returned in the response
test_notifications ==
    \E channels \in TestChannels, reg \in Registries :
      \E oc \in [1..Len(channels) -> SendOutcomes] :
        /\ tresp' = IF Len(channels) = 0
                    THEN [status |-> 400, channels |-> channels, results |-> <<>>]
                    ELSE [status |-> 200, channels |-> channels,
                          results |-> send_notification(channels, reg, oc)]
        /\ UNCHANGED <<evalVars, sendVars, lifeVars, is_running, queue, unfinished, dropped, nextTok, startsLeft,
                       wpc, wtask, wlast, deq, spc>>

(* ----------------------- notification_queue.py ------------------------ *)
\* stop_workers up to its wait: clear the flag, then block in _task_queue.join()
StopBegin ==
    /\ spc \in {"idle", "stopped"}
    /\ is_running
    /\ is_running' = FALSE
    /\ spc' = "join_queue"
    /\ UNCHANGED <<evalVars, sendVars, lifeVars, tresp, queue, unfinished, dropped, nextTok, startsLeft, wpc, wtask, wlast, deq>>

\* _task_queue.join() returns once unfinished_tasks is 0
StopJoinQueue ==
    /\ spc = "join_queue"
    /\ unfinished = 0
    /\ spc' = "join_threads"
    /\ UNCHANGED <<evalVars, sendVars, lifeVars, tresp, is_running, queue, unfinished, dropped, nextTok, startsLeft,
                   wpc, wtask, wlast, deq>>

\* thread.join(timeout=5) for every thread, then _worker_threads.clear()
StopJoinThreads ==
    /\ spc = "join_threads"
    /\ spc' = "stopped"
    /\ UNCHANGED <<evalVars, sendVars, lifeVars, tresp, is_running, queue, unfinished, dropped, nextTok, startsLeft,
                   wpc, wtask, wlast, deq>>

(* --------------- data_collector.py: the collector thread -------------- *)
\* collector threads a run may create, in the order of their creation
Loops == 1..MaxLoops

\* positions of a collector thread that has not left collector_loop
LiveLoop == {"started", "test", "collect", "insert"}

collVars == <<IS_RUNNING, cpc, plan>>
schedVars == <<conf, started, is_running_of, jobs>>

\* start_collector: refuse while the flag is set; otherwise reset the flag
\* and start a thread on collector_loop
start_collector ==
    /\ ~IS_RUNNING
    /\ \E l \in Loops :
          /\ cpc[l] = "none"
          /\ \A k \in Loops : k < l => cpc[k] # "none"
          /\ cpc' = [cpc EXCEPT ![l] = "started"]
    /\ IS_RUNNING' = FALSE
    /\ UNCHANGED <<evalVars, queueVars, sendVars, plan, schedVars>>

\* stop_collector: clear the flag, wait at most five seconds for the thread
stop_collector ==
    /\ IS_RUNNING
    /\ IS_RUNNING' = FALSE
    /\ UNCHANGED <<evalVars, queueVars, sendVars, cpc, plan, schedVars>>

\* first statement of collector_loop, run by the new thread
CollectorBegin(l) ==
    /\ cpc[l] = "started"
    /\ IS_RUNNING' = TRUE
    /\ cpc' = [cpc EXCEPT ![l] = "test"]
    /\ UNCHANGED <<evalVars, queueVars, sendVars, plan, schedVars>>

\* while IS_RUNNING: the test after the sleep of the previous iteration
CollectorTest(l) ==
    /\ cpc[l] = "test"
    /\ cpc' = [cpc EXCEPT ![l] = IF IS_RUNNING THEN "collect" ELSE "exited"]
    /\ UNCHANGED <<evalVars, queueVars, sendVars, IS_RUNNING, plan, schedVars>>

\* rows decided by the threads but not yet committed
Pending(p) == LET n[l \in 0..MaxLoops] == IF l = 0 THEN 0 ELSE n[l - 1] + Len(p[l])
              IN  n[MaxLoops]

\* collect_data_once up to the duplicate queries of the alert check: the
\* reading is stored, each rule queries alert_history on the thread's own
\* session and decides the row it adds.  The rows of one cycle have
\* distinct (rule, device) keys, so no query of the cycle depends on a row
\* the same cycle adds.
CollectorCheck(l) ==
    /\ cpc[l] = "collect"
    /\ \E dt \in 0..MaxElapsed, tot \in feed.total,
          devs \in {f \in [Devices -> Speeds \cup {Absent}] :
                       \A d \in Devices : f[d] \in feed.dev[d]} :
          LET t == now + dt
              total1 == IF tot = Absent THEN latestTotal ELSE tot
              dev1 == [d \in Devices |->
                          IF devs[d] = Absent THEN latestDev[d]
                          ELSE [down |-> devs[d].down, up |-> devs[d].up,
                                timestamp |-> t]]
              h1 == check_alerts(history, rules, t, total1, dev1)
              rows == SubSeq(h1, Len(history) + 1, Len(h1))
          IN  /\ t <= feed.epoch + MaxTime
              /\ Len(history) + Pending(plan) + Len(rows) <= MaxEvents
              /\ now' = t
              /\ latestTotal' = total1
              /\ latestDev' = dev1
              /\ plan' = [plan EXCEPT ![l] = rows]
              /\ saved' = "True"
    /\ cpc' = [cpc EXCEPT ![l] = "insert"]
    /\ UNCHANGED <<rules, feed, history, queueVars, sendVars, IS_RUNNING, schedVars>>

\* db.session.add and commit of the rows decided, then the sleep
CollectorInsert(l) ==
    /\ cpc[l] = "insert"
    /\ history' = history \o plan[l]
    /\ plan' = [plan EXCEPT ![l] = <<>>]
    /\ cpc' = [cpc EXCEPT ![l] = "test"]
    /\ UNCHANGED <<now, rules, feed, latestTotal, latestDev, saved, queueVars, sendVars,
                   IS_RUNNING, schedVars>>

(* -------------- backup_scheduler.py, report_scheduler.py -------------- *)
Schedulers == {"backup", "report"}

\* targets of the unpacking assignment in _load_backup_config
BackupUnpackTargets == 7
\* targets of the unpacking assignment in _load_report_config
ReportUnpackTargets == 7

\* _load_backup_config / _load_report_config: the section of the file, or
\* {} when the unpacking of load_config_file's tuple raises ValueError
load_section(s, file) ==
    IF (IF s = "backup" THEN BackupUnpackTargets ELSE ReportUnpackTargets) = ReturnedValues
    THEN file[s]
    ELSE NoKey

\* config.get('backup_enabled', 'false').lower() == 'true'
section_enabled(v) == (IF v = NoKey THEN "false" ELSE v) = "true"

\* _schedule_backup / _schedule_reports: nothing when not enabled; otherwise
\* schedule.clear() on the default scheduler of the schedule module, then
\* the jobs of this scheduler
schedule_jobs(s, file, js) ==
    IF section_enabled(load_section(s, file)) THEN {s} ELSE js

\* start of a scheduler; the new thread's first statement is the initial
\* scheduling.  `started' records that start was called while the file
\* enabled the scheduler.
scheduler_start(s) ==
    /\ started' = [started EXCEPT ![s] = started[s] \/ conf[s] = "true"]
    /\ IF is_running_of[s] \/ ~section_enabled(load_section(s, conf))
       THEN UNCHANGED <<is_running_of, jobs>>
       ELSE /\ is_running_of' = [is_running_of EXCEPT ![s] = TRUE]
            /\ jobs' = schedule_jobs(s, conf, jobs)
    /\ UNCHANGED <<evalVars, queueVars, sendVars, collVars, conf>>

\* stop of a scheduler: schedule.clear() after the thread was joined
scheduler_stop(s) ==
    /\ started' = [started EXCEPT ![s] = FALSE]
    /\ IF ~is_running_of[s]
       THEN UNCHANGED <<is_running_of, jobs>>
       ELSE /\ is_running_of' = [is_running_of EXCEPT ![s] = FALSE]
            /\ jobs' = {}
    /\ UNCHANGED <<evalVars, queueVars, sendVars, collVars, conf>>

\* reload_config of a scheduler
reload_config(s, file, js) ==
    IF is_running_of[s] THEN schedule_jobs(s, file, js) ELSE js

\* POST of the backup / report configuration: save_config_file, then
\* reload_config of the scheduler
update_config(s) ==
    \E v \in {"true", "false"} :
        /\ conf' = [conf EXCEPT ![s] = v]
        /\ jobs' = reload_config(s, conf', jobs)
        /\ UNCHANGED <<evalVars, queueVars, sendVars, collVars, started, is_running_of>>

\* the services as the evaluation, queue and send models see them: the one
\* collector thread run.py started, both schedulers disabled in the file
InitLifeIdle ==
    /\ IS_RUNNING = TRUE
    /\ cpc = [l \in Loops |-> IF l = 1 THEN "test" ELSE "none"]
    /\ plan = [l \in Loops |-> <<>>]
    /\ conf = [s \in Schedulers |-> "false"]
    /\ started = [s \in Schedulers |-> FALSE]
    /\ is_running_of = [s \in Schedulers |-> FALSE]
    /\ jobs = {}

(* ------------------------- evaluation model --------------------------- *)
InitRules ==
    [id \in RuleIds |->
        IF id = 1
        THEN [type |-> "traffic_threshold", enabled |-> TRUE, threshold_bytes |-> 2,
              device_id |-> 0, offline_threshold_minutes |-> NoneVal,
              severity |-> "warning"]
        ELSE [type |-> "device_offline", enabled |-> TRUE, threshold_bytes |-> NoneVal,
              device_id |-> 0, offline_threshold_minutes |-> 2,
              severity |-> "warning"]]

\* telemetry in which every device reports in every cycle
FeedLive == [total |-> Speeds, dev |-> [d \in Devices |-> Speeds], epoch |-> 0,
             faults |-> FALSE]
\* telemetry in which device 2 may be missing from a reading; the process
\* starts at minute 3 over rows stored at minute 0
FeedGaps == [total |-> {[down |-> 0, up |-> 1]},
             dev |-> [d \in Devices |->
                        IF d = 1 THEN {[down |-> 1, up |-> 1]}
                        ELSE {Absent, [down |-> 1, up |-> 1]}],
             epoch |-> 3, faults |-> FALSE]

InitEval(f) ==
    /\ now = f.epoch
    /\ feed = f
    /\ rules = InitRules
    /\ history = <<>>
    /\ latestTotal = NoTotal
    /\ latestDev = [d \in Devices |->
                        IF f.epoch = 0 THEN NoRecord
                        ELSE [down |-> 1, up |-> 1, timestamp |-> 0]]
    /\ saved = "none"

\* the module globals of notification_queue.py before start_workers; the
\* host program is run.py, which calls start_workers once
InitQueue ==
    /\ is_running = FALSE
    /\ queue = <<>>
    /\ unfinished = 0
    /\ dropped = 0
    /\ nextTok = 1
    /\ startsLeft = 1
    /\ wpc = [w \in Threads |-> "none"]
    /\ wtask = [w \in Threads |-> NoTask]
    /\ wlast = [w \in Threads |-> NoLast]
    /\ deq = [k \in 1..MaxTasks |-> <<>>]
    /\ spc = "idle"
    /\ tresp = NoResponse

\* the pool as run.py leaves it: started, every worker at its loop test
InitQueueIdle ==
    /\ is_running = TRUE
    /\ queue = <<>>
    /\ unfinished = 0
    /\ dropped = 0
    /\ nextTok = 1
    /\ startsLeft = 0
    /\ wpc = [w \in Threads |-> IF w \in Workers THEN "loop" ELSE "none"]
    /\ wtask = [w \in Threads |-> NoTask]
    /\ wlast = [w \in Threads |-> NoLast]
    /\ deq = [k \in 1..MaxTasks |-> <<>>]
    /\ spc = "idle"
    /\ tresp = NoResponse

\* no channel send in progress
InitSendIdle ==
    /\ ch = [kind |-> "page", enabled |-> TRUE, required |-> TRUE]
    /\ replies = <<>>
    /\ sstate = "done"
    /\ spos = 1
    /\ posts = <<>>
    /\ success_count = 0
    /\ errors = <<>>
    /\ ret = NoRet

Init == InitEval(FeedLive) /\ InitQueueIdle /\ InitSendIdle /\ InitLifeIdle

InitOffline == InitEval(FeedGaps) /\ InitQueueIdle /\ InitSendIdle /\ InitLifeIdle

Next ==
    \/ save_traffic_data
    \/ acknowledge_alert
    \/ update_rule

Spec == Init /\ [][Next]_vars

SpecOffline == InitOffline /\ [][Next]_vars

(* -------------------- evaluation with two silent devices -------------- *)
\* telemetry in which device 1 never reports and device 2 may be missing
FeedPairs == [total |-> {[down |-> 0, up |-> 1]},
              dev |-> [d \in Devices |->
                         IF d = 1 THEN {Absent}
                         ELSE {Absent, [down |-> 1, up |-> 1]}],
              epoch |-> 3, faults |-> FALSE]

InitPairs == InitEval(FeedPairs) /\ InitQueueIdle /\ InitSendIdle /\ InitLifeIdle

SpecPairs == InitPairs /\ [][Next]_vars

(* ----------------------- evaluation with faults ----------------------- *)
\* telemetry with gaps, in which the insert of a reading may fail
FeedFault == [total |-> {[down |-> 1, up |-> 1]},
              dev |-> [d \in Devices |->
                         IF d = 1 THEN {[down |-> 1, up |-> 1]}
                         ELSE {Absent, [down |-> 1, up |-> 1]}],
              epoch |-> 3, faults |-> TRUE]

\* rule 1 is a traffic rule whose threshold_bytes was set to null through
\* update_rule; rule 2 is a sound rule of either kind
FaultRules ==
    {[id \in RuleIds |->
        IF id = 1
        THEN [type |-> "traffic_threshold", enabled |-> TRUE, threshold_bytes |-> NoneVal,
              device_id |-> 0, offline_threshold_minutes |-> NoneVal,
              severity |-> "warning"]
        ELSE second] :
     second \in {[type |-> "traffic_threshold", enabled |-> TRUE, threshold_bytes |-> 2,
                  device_id |-> 0, offline_threshold_minutes |-> NoneVal,
                  severity |-> "warning"],
                 [type |-> "device_offline", enabled |-> TRUE, threshold_bytes |-> NoneVal,
                  device_id |-> 0, offline_threshold_minutes |-> 2,
                  severity |-> "warning"]}}

InitFault ==
    /\ now = FeedFault.epoch
    /\ feed = FeedFault
    /\ rules \in FaultRules
    /\ history = <<>>
    /\ latestTotal = NoTotal
    /\ latestDev = [d \in Devices |-> [down |-> 1, up |-> 1, timestamp |-> 0]]
    /\ saved = "none"
    /\ InitQueueIdle
    /\ InitSendIdle /\ InitLifeIdle

SpecFault == InitFault /\ [][Next]_vars

(* --------------------------- dispatch model --------------------------- *)
\* the store holds one alert_history row (id 1); no telemetry cycle runs
InitStore ==
    /\ now = 0
    /\ feed = FeedLive
    /\ rules = InitRules
    /\ history = <<AlertHistoryRow(1, "traffic_threshold", "warning", 0, 0)>>
    /\ latestTotal = NoTotal
    /\ latestDev = [d \in Devices |-> NoRecord]
    /\ saved = "none"

InitDispatch == InitStore /\ InitQueue /\ InitSendIdle /\ InitLifeIdle

NextQueue ==
    \/ start_workers
    \/ send_notification_async
    \/ \E w \in Threads : WorkerCheck(w)
    \/ \E w \in Threads : WorkerGet(w)
    \/ \E w \in Threads : WorkerProcess(w)
    \/ StopBegin
    \/ StopJoinQueue
    \/ StopJoinThreads
    \/ test_notifications

SpecQueue == InitDispatch /\ [][NextQueue]_vars

\* the queue module alone, every started worker thread being scheduled
\* again and again: get returns within its timeout of 1 s, a send within
\* the timeouts of its network calls
NextStop ==
    \/ start_workers
    \/ send_notification_async
    \/ \E w \in Threads : WorkerCheck(w)
    \/ \E w \in Threads : WorkerGet(w)
    \/ \E w \in Threads : WorkerProcess(w)
    \/ StopBegin
    \/ StopJoinQueue
    \/ StopJoinThreads

SpecStop ==
    /\ InitDispatch
    /\ [][NextStop]_vars
    /\ \A w \in Workers :
          /\ WF_vars(WorkerCheck(w))
          /\ WF_vars(WorkerGet(w))
          /\ WF_vars(WorkerProcess(w))

(* ------------------- properties of the evaluation --------------------- *)
\* a step of the telemetry cycle that left a trace in the store
CycleStep ==
    \/ now' # now
    \/ latestTotal' # latestTotal
    \/ latestDev' # latestDev
    \/ Len(history') # Len(history)

\* ids of the rows inserted by the step
NewIds == (Len(history) + 1)..Len(history')

\* the rate the evaluation reads for a traffic rule: down + up of the newest
\* row of its target (-1 when the target has no row)
RateRead(rule) ==
    IF rule.device_id = 0
    THEN IF latestTotal' = NoTotal THEN NoneVal
         ELSE latestTotal'.down + latestTotal'.up
    ELSE IF latestDev'[rule.device_id] = NoRecord THEN NoneVal
         ELSE latestDev'[rule.device_id].down + latestDev'[rule.device_id].up

IsTrafficRule(r) ==
    /\ rules[r].enabled
    /\ rules[r].type = "traffic_threshold"
    /\ rules[r].threshold_bytes # NoneVal

\* triggered rows of the pair (r, e) inside the window ending at time t
OpenInWindow(h, r, e, t) ==
    {i \in 1..Len(h) : /\ h[i].rule_id = r
                       /\ h[i].device_id = e
                       /\ h[i].status = "triggered"
                       /\ t - h[i].triggered_at <= SuppressionMinutes}

\* triggered rows of rule r, whatever the entity, inside the window
OpenOfRule(h, r, t) == UNION {OpenInWindow(h, r, e, t) : e \in ScopeValues}

\* C1: whenever an evaluation persists a new AlertEvent while the pool is
\* running, the same call hands exactly one DispatchTask for that event to
\* the Dispatch Queue.
C1_EventEnqueuesTask ==
    [][(is_running /\ Len(history') > Len(history))
        => /\ Len(queue') = Len(queue) + Cardinality(NewIds)
           /\ \A id \in NewIds :
                Cardinality({k \in 1..Len(queue') : queue'[k].id = id}) = 1]_vars

Cond(r, e) ==
    \/ /\ IsTrafficRule(r)
       /\ rules[r].device_id = e
       /\ RateRead(rules[r]) # NoneVal
       /\ RateRead(rules[r]) >= rules[r].threshold_bytes
    \/ /\ rules[r].enabled
       /\ rules[r].type = "device_offline"
       /\ rules[r].offline_threshold_minutes > 0
       /\ e \in Devices
       /\ latestDev'[e] # NoRecord
       /\ now' - latestDev'[e].timestamp > rules[r].offline_threshold_minutes

NewOfPair(r, e) ==
    {i \in NewIds : history'[i].rule_id = r /\ history'[i].device_id = e}

\* some triggered row of the pair exists, and all of them are older than
\* the window
OnlyOldOpen(r, e) ==
    /\ \E i \in 1..Len(history) :
          /\ history[i].rule_id = r
          /\ history[i].device_id = e
          /\ history[i].status = "triggered"
    /\ OpenInWindow(history, r, e, now') = {}

\* first half of C3: a triggered row of (r, e) at most 5 minutes old
\* suppresses the pair: no second row, no dispatch task
SuppressedInside ==
    \A r \in RuleIds, e \in ScopeValues :
        (Cond(r, e) /\ OpenInWindow(history, r, e, now') # {})
            => (NewOfPair(r, e) = {} /\ queue' = queue)

InWindowWithStatus(r, e, S) ==
    {i \in 1..Len(history) : /\ history[i].rule_id = r
                             /\ history[i].device_id = e
                             /\ history[i].status \in S
                             /\ now - history[i].triggered_at <= SuppressionMinutes}

\* C4 as stated: per (rule, entity) at most one row with status triggered
\* or acknowledged has triggered_at within the last 5 minutes.
C4_Original ==
    \A r \in RuleIds, e \in ScopeValues :
        Cardinality(InWindowWithStatus(r, e, {"triggered", "acknowledged"})) <= 1

\* C4 amended: per (rule, entity) at most one row with status triggered has
\* triggered_at within the last 5 minutes.
C4_SuppressionInvariant ==
    \A r \in RuleIds, e \in ScopeValues :
        Cardinality(InWindowWithStatus(r, e, {"triggered"})) <= 1

\* C4 witness: an acknowledged row and a later triggered row of the same
\* pair, both inside the window
C4_Witness ==
    \E r \in RuleIds, e \in ScopeValues :
        /\ InWindowWithStatus(r, e, {"triggered"}) # {}
        /\ InWindowWithStatus(r, e, {"acknowledged"}) # {}

(* ----------------------------- send model ---------------------------- *)
\* one call of send on a channel of an endpoint kind, over every
\* configuration and every combination of endpoint answers
InitSend ==
    /\ InitStore
    /\ InitQueue
    /\ InitLifeIdle
    /\ \E k \in EndpointKinds \cup {"email"}, en \in BOOLEAN, req \in BOOLEAN,
          n \in 0..MaxEndpoints :
          /\ (k \notin {"telegram", "email"} => req)
          /\ (k = "email" => n <= 1)
          /\ ch = [kind |-> k, enabled |-> en, required |-> req]
          /\ replies \in [1..n -> RepliesOf(k)]
    /\ sstate = "begin"
    /\ spos = 1
    /\ posts = <<>>
    /\ success_count = 0
    /\ errors = <<>>
    /\ ret = NoRet

NextSend ==
    \/ SendBegin
    \/ SendPost
    \/ SendReturn

SpecSend == InitSend /\ [][NextSend]_vars

(* --------------------- properties of the dispatch --------------------- *)
\* a capacity below the queue lengths the model explores
Capacity == MaxTasks - 1

\* C5: an enqueue that finds the queue holding its capacity of tasks leaves
\* the queue unchanged and adds one to the dropped-task counter.
C5_DropAtCapacity ==
    [][(Len(queue) >= Capacity /\ (nextTok' # nextTok \/ dropped' # dropped))
        => (queue' = queue /\ dropped' = dropped + 1)]_vars

Live == {"loop", "get", "work"}

\* C6: no outcome of a task ends the worker: after the loop body the worker
\* is back at its loop test, a task with a missing row leaves no result, and
\* a worker leaves the loop only by reading the cleared flag at the test.
C6_WorkerSurvives ==
    [][\A w \in Workers :
        /\ wpc[w] = "work" =>
              /\ wpc'[w] \in Live
              /\ (wpc'[w] # "work" /\ wtask[w].id \notin 1..Len(history))
                    => (wpc'[w] = "loop" /\ wlast'[w].results = <<>>)
        /\ (wpc[w] \in Live /\ wpc'[w] \notin Live)
              => (wpc[w] = "loop" /\ ~is_running /\ wpc'[w] = "exit")]_vars

\* C6 witness: a worker whose previous task had no row, and whose second
\* task_done raised out of the finally clause or not, has sent a later task
C6_Witness ==
    \E w \in Workers :
        /\ wlast[w].prev = "missing"
        /\ wlast[w].outcome = "sent"
        /\ wpc[w] \in Live

\* C7: every accepted task is dequeued at most once and by one worker: its
\* list of dequeuing workers never exceeds one entry, a held task is held
\* by the worker that dequeued it, by no other, and is no longer waiting.
C7_DequeuedOnce ==
    /\ \A k \in 1..MaxTasks : Len(deq[k]) <= 1
    /\ \A w \in Workers :
          wtask[w] # NoTask =>
              /\ deq[wtask[w].tok] = <<w>>
              /\ \A v \in Workers \ {w} : wtask[v].tok # wtask[w].tok
              /\ \A i \in 1..Len(queue) : queue[i].tok # wtask[w].tok

\* C7 witness: two workers hold two tasks at the same time
C7_Witness ==
    \E w, v \in Workers :
        /\ w # v
        /\ wpc[w] = "work"
        /\ wpc[v] = "work"

\* C8: a task that reaches the fan-out gets one result per listed kind, in
\* the listed order, whatever the earlier kinds did; a kind unknown to the
\* registry gets a failure result of its own.
C8_AllAttempted ==
    \A w \in Workers :
        wlast[w].outcome = "sent" =>
            /\ Len(wlast[w].results) = Len(wlast[w].methods)
            /\ \A i \in 1..Len(wlast[w].methods) :
                  /\ wlast[w].results[i].kind = wlast[w].methods[i]
                  /\ wlast[w].methods[i] \notin ChannelKinds
                        => (~wlast[w].results[i].success
                            /\ wlast[w].results[i].detail = "unsupported")

\* C8 witness: the first kind failed (it is unknown to the registry) and
\* the second kind was still attempted
C8_Witness ==
    \E w \in Workers :
        /\ wlast[w].outcome = "sent"
        /\ Len(wlast[w].results) = 2
        /\ ~wlast[w].results[1].success
        /\ wlast[w].results[2].success

(* ------------------- properties of the channel send ------------------- *)
\* endpoints whose delivery succeeded: answered 2xx and, for the kinds that
\* read it, errcode 0
Succeeded == {i \in 1..Len(replies) : replies[i] = "ok"}

Configured ==
    /\ ch.kind \in EndpointKinds
    /\ ch.enabled
    /\ ch.required
    /\ Len(replies) >= 1

Range(seq) == {seq[i] : i \in 1..Len(seq)}

\* C9: send on an enabled channel with K >= 1 endpoints returns success
\* exactly when all K deliveries succeeded, and otherwise a failure whose
\* detail names every failing endpoint and no succeeding one.
C9_AllOrNothing ==
    (sstate = "done" /\ Configured) =>
        /\ ret.success <=> (Succeeded = 1..Len(replies))
        /\ ~ret.success => Range(ret.named) = (1..Len(replies)) \ Succeeded

\* C10: one send call on an enabled channel with K endpoints issues a POST
\* to every one of the K endpoints, whatever the earlier endpoints answered.
C10_EveryEndpointPosted ==
    (sstate = "done" /\ Configured) => posts = [i \in 1..Len(replies) |-> i]

\* C11: stop_workers called on a running pool always returns: its caller is
\* never left waiting in _task_queue.join() for tasks that no worker is left
\* to finish (tasks still queued are abandoned, not waited for).
C11_StopReturns ==
    ~(/\ spc = "join_queue"
      /\ unfinished > 0
      /\ \A w \in Workers : wpc[w] = "exit")

(* ------------------ properties of the offline check ------------------- *)
IsOfflineRule(r) ==
    /\ rules[r].enabled
    /\ rules[r].type = "device_offline"
    /\ rules[r].offline_threshold_minutes # NoneVal
    /\ rules[r].offline_threshold_minutes > 0

\* minutes since the newest traffic record of device d, as the cycle sees it
Staleness(d) == now' - latestDev'[d].timestamp

\* C12 as stated: for an enabled offline rule with threshold M and a device
\* with a traffic record and no suppressing event, the evaluation creates an
\* event for the device iff now - last_seen >= M.
C12_Original ==
    [][CycleStep =>
        \A r \in RuleIds, d \in Devices :
            (/\ IsOfflineRule(r)
             /\ latestDev'[d] # NoRecord
             /\ OpenInWindow(history, r, d, now') = {})
                => (NewOfPair(r, d) # {}
                      <=> Staleness(d) >= rules[r].offline_threshold_minutes)]_vars

\* C12 amended: the event is created iff now - last_seen > M (staleness of
\* exactly M does not trigger, M+1 does), and then exactly one is created.
C12_OfflineBoundary ==
    [][CycleStep =>
        \A r \in RuleIds, d \in Devices :
            (/\ IsOfflineRule(r)
             /\ latestDev'[d] # NoRecord
             /\ OpenInWindow(history, r, d, now') = {})
                => /\ NewOfPair(r, d) # {}
                        <=> Staleness(d) > rules[r].offline_threshold_minutes
                   /\ Cardinality(NewOfPair(r, d)) <= 1]_vars

\* C12 witness: an offline event created in the latest cycle for a device
\* first seen silent for M+1 minutes, one minute past the boundary
C12_Witness ==
    \E i \in 1..Len(history) :
        /\ history[i].alert_type = "device_offline"
        /\ history[i].triggered_at = now
        /\ latestDev[history[i].device_id] # NoRecord
        /\ now - latestDev[history[i].device_id].timestamp
              = rules[history[i].rule_id].offline_threshold_minutes + 1

\* C13: for a traffic rule scoped to device e, a cycle whose snapshot does
\* not hold e (the newest row of e is older than the cycle) creates no event
\* for that rule, whatever the rates recorded for e earlier.
C13_AbsentEntitySkipped ==
    [][CycleStep =>
        \A r \in RuleIds :
            (/\ IsTrafficRule(r)
             /\ rules[r].device_id \in Devices
             /\ latestDev'[rules[r].device_id].timestamp < now')
                => {i \in NewIds : history'[i].rule_id = r} = {}]_vars

(* --------------------- properties of fault isolation ------------------ *)
\* an enabled traffic rule whose evaluation raises when it reaches the
\* comparison: its threshold is null
Faulty(r) ==
    /\ rules[r].enabled
    /\ rules[r].type = "traffic_threshold"
    /\ rules[r].threshold_bytes = NoneVal

\* C14: a cycle that evaluates a faulty rule R leaves the store as the same
\* cycle would without R (R disabled): every other rule of both kinds gets
\* the result it would have had, and save_traffic_data reports success.
C14_RuleFaultIsolation ==
    [][CycleStep =>
        \A r \in RuleIds :
            Faulty(r) =>
                /\ history' = check_alerts(history, [rules EXCEPT ![r].enabled = FALSE],
                                           now', latestTotal', latestDev')
                /\ saved' = "True"]_vars

\* C14 witness: rule 1 raised in the latest cycle (its target has a
\* reading), and the same cycle created an event of rule 2
C14_Witness ==
    /\ Faulty(1)
    /\ rules[1].device_id = 0
    /\ latestTotal # NoTotal
    /\ saved = "True"
    /\ \E i \in 1..Len(history) :
          /\ history[i].rule_id = 2
          /\ history[i].triggered_at = now

\* C15: a send on a non-Page channel that is disabled or lacks a required
\* field never uses the network, and returns a failure with a detail.
C15_ConfigShortCircuit ==
    (ch.kind # "page" /\ (~ch.enabled \/ ~ch.required \/ Len(replies) = 0)) =>
        /\ posts = <<>>
        /\ sstate = "done" => (~ret.success /\ ret.detail \in {"not enabled", "missing field"})

\* C15 witness: an enabled channel with endpoints whose required field is
\* empty has returned
C15_Witness ==
    /\ sstate = "done"
    /\ ch.kind \in {"telegram", "email"}
    /\ ch.enabled
    /\ ~ch.required
    /\ Len(replies) >= 1
    /\ ~ret.success

\* C16: the registry of a constructed NotificationService holds the six
\* channel kinds, so a fan-out never reports page, email, webhook, telegram,
\* wecom or dingtalk as an unsupported channel.
C16_RegistryComplete ==
    \A w \in Workers :
        \A i \in 1..Len(wlast[w].results) :
            wlast[w].results[i].kind \in ChannelKinds
                => wlast[w].results[i].detail # "unsupported"

C18_CooperativeStop ==
    /\ [][\A w \in Workers :
            /\ wpc[w] = "work" => wpc'[w] \in {"work", "loop"}
            /\ (wpc[w] = "work" /\ wpc'[w] = "loop") => wlast'[w].methods = wtask[w].methods
            /\ wpc[w] = "exit" => (wpc'[w] = "exit" /\ wtask'[w] = NoTask)]_vars
    /\ (spc # "idle") ~> (\A w \in Workers : wpc[w] = "exit")

\* C18 witness: stop was called while worker 1 held a task; the worker has
\* finished it and every worker has left its loop
C18_Witness ==
    /\ spc # "idle"
    /\ \A w \in Workers : wpc[w] = "exit"
    /\ wlast[1].outcome = "sent"
    /\ queue # <<>>

\* C19: the number of tasks waiting in the dispatch queue never exceeds a
\* fixed capacity, however fast send_notification_async is called (checked
\* for a capacity below the number of tasks the model may enqueue).
C19_QueueBounded == Len(queue) <= Capacity

InitPool ==
    /\ InitStore
    /\ InitSendIdle /\ InitLifeIdle
    /\ is_running = FALSE
    /\ queue = <<>>
    /\ unfinished = 0
    /\ dropped = 0
    /\ nextTok = 1
    /\ startsLeft = MaxStarts
    /\ wpc = [w \in Threads |-> "none"]
    /\ wtask = [w \in Threads |-> NoTask]
    /\ wlast = [w \in Threads |-> NoLast]
    /\ deq = [k \in 1..MaxTasks |-> <<>>]
    /\ spc = "idle"
    /\ tresp = NoResponse

SpecPool == InitPool /\ [][NextStop]_vars

(* --------------------- properties of the pool size -------------------- *)
\* worker threads inside their loop
LiveThreads == {w \in Threads : wpc[w] \in Live}

\* C21: the number of live worker threads never exceeds the num_workers of
\* a start, over every sequence and interleaving of start_workers and
\* stop_workers calls.
C21_FixedPoolSize == Cardinality(LiveThreads) <= PoolSize

(* ---------------------- one task, one channel send -------------------- *)
\* one channel kind per response protocol: webhook reads the status of the
\* response, wecom the status and the errcode of the body
AttemptKinds == {"webhook", "wecom"}

\* the pool at work while the send of an endpoint channel runs: the channel
\* is enabled and fully configured, each endpoint answers as it likes
InitAttempt ==
    /\ InitStore
    /\ InitQueue
    /\ InitLifeIdle
    /\ \E k \in AttemptKinds :
          /\ ch = [kind |-> k, enabled |-> TRUE, required |-> TRUE]
          /\ replies \in [1..MaxEndpoints -> RepliesOf(k)]
    /\ sstate = "begin"
    /\ spos = 1
    /\ posts = <<>>
    /\ success_count = 0
    /\ errors = <<>>
    /\ ret = NoRet

NextAttempt ==
    \/ start_workers
    \/ send_notification_async
    \/ \E w \in Threads : WorkerCheck(w)
    \/ \E w \in Threads : WorkerGet(w)
    \/ \E w \in Threads : WorkerProcess(w)
    \/ SendBegin
    \/ SendPost
    \/ SendReturn

SpecAttempt == InitAttempt /\ [][NextAttempt]_vars

(* ----------------------- properties of the attempts ------------------- *)
\* tokens of the tasks waiting in q
Waiting(q) == {q[i].tok : i \in 1..Len(q)}

\* C22: one send call posts to each endpoint at most once, whatever the
\* endpoint answered, and posts nothing after it returned; a worker makes
\* one send call per listed kind of its task; a task that was dequeued is
\* never on the queue again and is dequeued at most once.
C22_AtMostOnce ==
    /\ [][/\ \A i, j \in 1..Len(posts') : posts'[i] = posts'[j] => i = j
          /\ Len(posts') <= Len(posts) + 1
          /\ sstate = "done" => posts' = posts
          /\ \A k \in 1..MaxTasks :
                /\ deq[k] # <<>> => k \notin Waiting(queue')
                /\ Len(deq'[k]) <= 1
          /\ \A w \in Threads :
                (wpc[w] = "work" /\ wpc'[w] # "work") =>
                    /\ Len(wlast'[w].results) <= Len(wtask[w].methods)
                    /\ wtask[w].tok \notin Waiting(queue')
                    /\ queue' = queue]_vars

\* C22 witness: the send has returned a failure after posting once to each
\* of its endpoints, the first of which failed, and a worker has finished a
\* task one kind of which failed, the queue being empty
C22_Witness ==
    /\ sstate = "done"
    /\ ~ret.success
    /\ replies[1] # "ok"
    /\ posts = [i \in 1..Len(replies) |-> i]
    /\ \E w \in Threads :
          /\ wlast[w].outcome = "sent"
          /\ \E i \in 1..Len(wlast[w].results) : ~wlast[w].results[i].success
          /\ wpc[w] \in Live
    /\ queue = <<>>

(* ------------------- evaluation and dispatch together ----------------- *)
\* the collector cycle, the acknowledge call of the management API and the
\* running worker pool over one store
NextPipeline ==
    \/ save_traffic_data
    \/ acknowledge_alert
    \/ send_notification_async
    \/ \E w \in Threads : WorkerCheck(w)
    \/ \E w \in Threads : WorkerGet(w)
    \/ \E w \in Threads : WorkerProcess(w)

\* telemetry in which the total and every device report the same rate in
\* every cycle
FeedSteady == [total |-> {[down |-> 1, up |-> 1]},
               dev |-> [d \in Devices |-> {[down |-> 1, up |-> 1]}],
               epoch |-> 0, faults |-> FALSE]

InitPipeline == InitEval(FeedSteady) /\ InitQueueIdle /\ InitSendIdle /\ InitLifeIdle

SpecPipeline == InitPipeline /\ [][NextPipeline]_vars

(* ------------------ properties of the event store --------------------- *)
\* a step of the management API
ManagementStep == acknowledge_alert \/ update_rule

\* C23: a step of the evaluator or of a worker (any step that is not one of
\* the management API) leaves every existing row of alert_history as it
\* was, field by field, deletes none, and every row it adds has status
\* triggered.
C23_EventsUntouched ==
    [][~ManagementStep =>
        /\ Len(history') >= Len(history)
        /\ \A i \in 1..Len(history) : history'[i] = history[i]
        /\ \A i \in NewIds : history'[i].status = "triggered"]_vars

\* C23 witness: an acknowledged event is in the store, a later cycle has
\* inserted a second event, and a worker has sent the task of an event
C23_Witness ==
    /\ Len(history) = 2
    /\ history[1].status = "acknowledged"
    /\ history[2].triggered_at = now
    /\ history[2].triggered_at > history[1].triggered_at
    /\ \E w \in Threads : wlast[w].outcome = "sent"

(* --------------------------- severity model --------------------------- *)
\* an empty alert_rules table; clients create rules and change their
\* severity while the collector runs over a steady feed
InitSeverity ==
    /\ now = FeedSteady.epoch
    /\ feed = FeedSteady
    /\ rules = [id \in RuleIds |-> NoRule]
    /\ history = <<>>
    /\ latestTotal = NoTotal
    /\ latestDev = [d \in Devices |-> NoRecord]
    /\ saved = "none"
    /\ InitQueueIdle
    /\ InitSendIdle /\ InitLifeIdle

NextSeverity ==
    \/ create_rule
    \/ update_rule_severity
    \/ save_traffic_data

SpecSeverity == InitSeverity /\ [][NextSeverity]_vars

(* ---------------------- properties of the severity -------------------- *)
\* C24: every stored rule and every event created from a rule has a
\* severity among critical, warning and info, and the formatter maps the
\* severity of every event to one of its three labels and colours, never to
\* the raw value or the default colour.
C24_SeverityClosed ==
    /\ \A r \in RuleIds : rules[r] # NoRule => rules[r].severity \in Severities
    /\ \A i \in 1..Len(history) :
          /\ history[i].severity \in Severities
          /\ severity_label(history[i].severity) # history[i].severity
          /\ severity_color(history[i].severity) # "#666"

(* ------------------- properties of the queue order -------------------- *)
\* the waiting tasks are in the order they were accepted
InAcceptanceOrder(q) == \A i, j \in 1..Len(q) : i < j => q[i].tok < q[j].tok

\* C25: the tasks wait in acceptance order; a get hands over the oldest
\* waiting task, every task accepted before it having been dequeued already,
\* and removes that task alone; a worker holds one task at a time and is
\* through with it before its next get.
C25_FifoHandOff ==
    [][/\ InAcceptanceOrder(queue')
       /\ \A w \in Threads :
             /\ (wpc[w] = "get" /\ wpc'[w] = "work") =>
                   /\ wtask'[w] = Head(queue)
                   /\ queue' = Tail(queue)
                   /\ \A i \in 1..Len(queue') : queue'[i].tok > wtask'[w].tok
                   /\ \A k \in 1..(wtask'[w].tok - 1) : deq[k] # <<>>
             /\ wpc'[w] = "get" => wtask'[w] = NoTask
             /\ (wpc[w] = "work" /\ wpc'[w] # "work") => wlast'[w].methods = wtask[w].methods]_vars

\* C25 witness: the second task was dequeued after the first by another
\* worker and is finished while the first is still being processed
C25_Witness ==
    \E w, v \in Threads :
        /\ w # v
        /\ wpc[w] = "work"
        /\ wtask[w].tok = 1
        /\ deq[2] = <<v>>
        /\ wtask[v] = NoTask
        /\ wlast[v].outcome # "none"

(* ---------------- properties of the completion accounting ------------- *)
\* worker threads holding a dequeued task
Processing(pc) == {w \in Threads : pc[w] = "work"}

\* C26: every dequeued task is marked done exactly once, so the count of
\* unfinished tasks always equals the tasks waiting plus the tasks being
\* processed, and _task_queue.join() of stop_workers never returns while a
\* worker is still processing a task.
C26_CompletionAccounting ==
    [][/\ unfinished' = Len(queue') + Cardinality(Processing(wpc'))
       /\ (spc = "join_queue" /\ spc' = "join_threads") => Processing(wpc) = {}]_vars

(* ----------------------- pool that is never stopped ------------------- *)
\* the queue module between start_workers and the exit of the process,
\* every worker thread being scheduled again and again
NextRun ==
    \/ start_workers
    \/ send_notification_async
    \/ \E w \in Threads : WorkerCheck(w)
    \/ \E w \in Threads : WorkerGet(w)
    \/ \E w \in Threads : WorkerProcess(w)

SpecRun ==
    /\ InitDispatch
    /\ [][NextRun]_vars
    /\ \A w \in Workers :
          /\ WF_vars(WorkerCheck(w))
          /\ WF_vars(WorkerGet(w))
          /\ WF_vars(WorkerProcess(w))

(* ------------------ properties of the eventual attempt ---------------- *)
\* C27: with the pool running and never stopped, every accepted task is
\* eventually dequeued, and the worker that has sent a task whose event
\* exists has attempted every channel kind the task lists: none of the six
\* kinds is left out as unsupported.
C27_EventualAttempt ==
    /\ \A k \in 1..MaxTasks : (k \in Waiting(queue)) ~> (deq[k] # <<>>)
    /\ [][\A w \in Threads :
            (wpc[w] = "work" /\ wpc'[w] # "work" /\ wlast'[w].outcome = "sent") =>
                /\ Len(wlast'[w].results) = Len(wtask[w].methods)
                /\ \A i \in 1..Len(wtask[w].methods) :
                      wtask[w].methods[i] \in ChannelKinds
                          => wlast'[w].results[i].detail # "unsupported"]_vars

(* ------------------ properties of the enqueue guard ------------------- *)
\* C28: while the flag is cleared no task is accepted (the queue does not
\* grow and no task identity is given out), and a start_workers that begins
\* after stop_workers has returned finds the queue empty.
C28_EnqueueOnlyWhileRunning ==
    [][/\ ~is_running => (nextTok' = nextTok /\ Len(queue') <= Len(queue)
                            /\ unfinished' <= unfinished)
       /\ (spc = "stopped" /\ ~is_running /\ is_running') => queue = <<>>]_vars

(* --------------------------- services model --------------------------- *)
\* the background services of run.py before any of them is started: the
\* collector over a steady feed, the two schedulers over every content of
\* the enabled keys of the configuration file
InitServices ==
    /\ InitEval(FeedSteady)
    /\ InitQueueIdle
    /\ InitSendIdle
    /\ IS_RUNNING = FALSE
    /\ cpc = [l \in Loops |-> "none"]
    /\ plan = [l \in Loops |-> <<>>]
    /\ conf \in [Schedulers -> {"true", "false"}]
    /\ started = [s \in Schedulers |-> FALSE]
    /\ is_running_of = [s \in Schedulers |-> FALSE]
    /\ jobs = {}

NextCollector ==
    \/ start_collector
    \/ stop_collector
    \/ \E l \in Loops : CollectorBegin(l)
    \/ \E l \in Loops : CollectorTest(l)
    \/ \E l \in Loops : CollectorCheck(l)
    \/ \E l \in Loops : CollectorInsert(l)

SpecCollector == InitServices /\ [][NextCollector]_vars

(* ------------------- properties of the single producer ---------------- *)
\* collector threads that have not left collector_loop
LiveLoops == {l \in Loops : cpc[l] \in LiveLoop}

\* two events of one (rule, entity) key, the older still triggered, the
\* younger created inside the suppression window of the older
DuplicateEvents(h) ==
    \E i, j \in 1..Len(h) :
        /\ i < j
        /\ h[i].rule_id = h[j].rule_id
        /\ h[i].device_id = h[j].device_id
        /\ h[i].status = "triggered"
        /\ h[j].triggered_at - h[i].triggered_at <= SuppressionMinutes

\* C29: over every interleaving of start_collector and stop_collector at
\* most one collector loop is alive, and the store never holds two events
\* of one (rule, entity) key created within one suppression window.
C29_SingleProducer ==
    /\ Cardinality(LiveLoops) <= 1
    /\ ~DuplicateEvents(history)

(* ------------------------- schedulers model --------------------------- *)
\* the services of run.py together: the collector thread and the two
\* schedulers, started, stopped and reconfigured in any order
NextServices ==
    \/ start_collector
    \/ stop_collector
    \/ \E l \in Loops : CollectorBegin(l)
    \/ \E l \in Loops : CollectorTest(l)
    \/ \E l \in Loops : CollectorCheck(l)
    \/ \E l \in Loops : CollectorInsert(l)
    \/ \E s \in Schedulers : scheduler_start(s)
    \/ \E s \in Schedulers : scheduler_stop(s)
    \/ \E s \in Schedulers : update_config(s)

SpecServices == InitServices /\ [][NextServices]_vars

(* ------------------- properties of the two schedulers ----------------- *)
\* a scheduler whose start was called while the file enabled it, not
\* stopped since and enabled in the file now
RunningAndEnabled(s) == started[s] /\ conf[s] = "true"

\* the scheduler loops that call schedule.run_pending(): each of them runs
\* every due job of the shared default scheduler
RunningLoops == {s \in Schedulers : is_running_of[s]}

====
